---- MODULE Spec2Model ----
(***************************************************************************)
(* Resume PDF scraper: a model of the extraction-and-merge engine.         *)
(*                                                                         *)
(*   scraper/openai_extractor.py  _normalize_email, _normalize_github,     *)
(*                                _merge_results, _extract_from_page       *)
(*                                (tenacity retry), extract_resume_from_   *)
(*                                pages                                    *)
(*   scraper/pdf_utils.py         _extract_worker,                         *)
(*                                extract_pdf_pages_text_with_timeout      *)
(*   scraper/main.py              _pick_api_key, main                      *)
(*                                                                         *)
(* Python strings are sequences of one-character strings, so that strip,   *)
(* len and the two regular expressions are computed as the code computes   *)
(* them.  Python values are tagged records (None, str, number, list).      *)
(***************************************************************************)
EXTENDS Integers, Sequences, FiniteSets, TLC

\* ------------------------------------------------------------------------
\* Python values
\* ------------------------------------------------------------------------

PyNone == [t |-> "none", s |-> <<>>, items |-> <<>>]

PyStr(str) == [t |-> "str", s |-> str, items |-> <<>>]

\* the number 42 (any non-zero number behaves the same way in this code)
PyNum == [t |-> "num", s |-> <<>>, items |-> <<>>]

PyList(xs) == [t |-> "list", s |-> <<>>, items |-> xs]

\* Python truthiness: `if v`, `not v`
Truthy(v) ==
    CASE v.t = "none" -> FALSE
      [] v.t = "str"  -> v.s # <<>>
      [] v.t = "num"  -> TRUE
      [] v.t = "list" -> v.items # <<>>

\* ------------------------------------------------------------------------
\* Strings
\* ------------------------------------------------------------------------

UpperSeq == <<"A", "B", "C", "D", "E", "F", "G", "H", "I", "J", "K", "L", "M",
              "N", "O", "P", "Q", "R", "S", "T", "U", "V", "W", "X", "Y", "Z">>

LowerSeq == <<"a", "b", "c", "d", "e", "f", "g", "h", "i", "j", "k", "l", "m",
              "n", "o", "p", "q", "r", "s", "t", "u", "v", "w", "x", "y", "z">>

Upper == {UpperSeq[k] : k \in 1..Len(UpperSeq)}

LowerLetters == {LowerSeq[k] : k \in 1..Len(LowerSeq)}

Alpha == Upper \cup LowerLetters

Digit == {"0", "1", "2", "3", "4", "5", "6", "7", "8", "9"}

Whitespace == {" ", "\n", "\t"}

\* str.lower() on one character (re.IGNORECASE compares case-folded)
Lower(c) ==
    IF c \in Upper THEN LowerSeq[CHOOSE k \in 1..Len(UpperSeq) : UpperSeq[k] = c]
    ELSE c

Min(S) == CHOOSE x \in S : \A y \in S : x <= y

Max(S) == CHOOSE x \in S : \A y \in S : x >= y

Slice(str, a, b) == SubSeq(str, a, b)

\* str.strip(): drop leading and trailing whitespace
Strip(str) ==
    LET keep == {i \in 1..Len(str) : str[i] \notin Whitespace}
    IN  IF keep = {} THEN <<>> ELSE Slice(str, Min(keep), Max(keep))

\* the end of the longest run of characters of class cls starting at position
\* a (a - 1 when str[a] is not in cls)
RunEnd(str, a, cls) ==
    LET stops == {j \in a..Len(str) : str[j] \notin cls}
    IN  IF stops = {} THEN Len(str) ELSE Min(stops) - 1

\* whether the literal lit occurs in str at position a, case-folded or not
LitAt(str, a, lit, fold) ==
    /\ a + Len(lit) - 1 <= Len(str)
    /\ \A k \in 1..Len(lit) :
          IF fold THEN Lower(str[a + k - 1]) = Lower(lit[k])
                  ELSE str[a + k - 1] = lit[k]

\* str(x) of a Python value inside an experiences list
Str_None == <<"N", "o", "n", "e">>

Str_42 == <<"4", "2">>

PyToStr(v) ==
    CASE v.t = "str"  -> v.s
      [] v.t = "none" -> Str_None
      [] v.t = "num"  -> Str_42
      [] OTHER        -> <<"[", "]">>

\* ------------------------------------------------------------------------
\* _normalize_email, _normalize_github
\* ------------------------------------------------------------------------

EmailLocalCh == Alpha \cup Digit \cup {".", "_", "%", "+", "-"}

EmailDomainCh == Alpha \cup Digit \cup {".", "-"}

\* The end of the match of
\*   [A-Za-z0-9._%+-]+@[A-Za-z0-9.-]+\.[A-Za-z]{2,}
\* that starts at position i, 0 when there is none.  The local part runs to
\* the "@"; the domain is greedy, so the last "." that is followed by two
\* letters is the one taken, and the letters after it are taken greedily.
EmailMatchEnd(str, i) ==
    LET a == RunEnd(str, i, EmailLocalCh) + 1
    IN  IF ~(a > i /\ a <= Len(str) /\ str[a] = "@") THEN 0
        ELSE LET d    == RunEnd(str, a + 1, EmailDomainCh)
                 dots == {j \in (a + 2)..d :
                             /\ str[j] = "."
                             /\ RunEnd(str, j + 1, Alpha) >= j + 2}
             IN  IF dots = {} THEN 0
                 ELSE RunEnd(str, Max(dots) + 1, Alpha)

\* re.search(...).group(0): the leftmost match, <<>> standing for no match
EmailSearch(str) ==
    LET starts == {i \in 1..Len(str) : EmailMatchEnd(str, i) # 0}
    IN  IF starts = {} THEN <<>>
        ELSE Slice(str, Min(starts), EmailMatchEnd(str, Min(starts)))

\* re.search raises TypeError on a value that is neither str nor falsy
RaisesTypeError(v) == Truthy(v) /\ v.t # "str"

_normalize_email(text) ==
    IF ~Truthy(text) THEN PyNone
    ELSE LET m == EmailSearch(text.s)
         IN  IF m # <<>> THEN PyStr(m) ELSE PyNone

GithubHandleCh == Alpha \cup Digit \cup {"_", ".", "-"}

Lit_http == <<"h", "t", "t", "p">>

Lit_scheme_sep == <<":", "/", "/">>

Lit_www == <<"w", "w", "w", ".">>

Lit_github_com == <<"g", "i", "t", "h", "u", "b", ".", "c", "o", "m", "/">>

\* The end of the match of  https?://(?:www\.)?github\.com/[A-Za-z0-9_.-]+
\* (re.IGNORECASE) that starts at position i, 0 when there is none.
GithubMatchEnd(str, i) ==
    IF ~LitAt(str, i, Lit_http, TRUE) THEN 0
    ELSE LET p1 == IF LitAt(str, i + 4, <<"s">>, TRUE) THEN i + 5 ELSE i + 4
         IN  IF ~LitAt(str, p1, Lit_scheme_sep, TRUE) THEN 0
             ELSE LET p2 == p1 + 3
                      p3 == IF LitAt(str, p2, Lit_www, TRUE) THEN p2 + 4 ELSE p2
                  IN  IF ~LitAt(str, p3, Lit_github_com, TRUE) THEN 0
                      ELSE LET h == p3 + Len(Lit_github_com)
                               e == RunEnd(str, h, GithubHandleCh)
                           IN  IF e >= h THEN e ELSE 0

GithubSearch(str) ==
    LET starts == {i \in 1..Len(str) : GithubMatchEnd(str, i) # 0}
    IN  IF starts = {} THEN <<>>
        ELSE Slice(str, Min(starts), GithubMatchEnd(str, Min(starts)))

_normalize_github(text) ==
    IF ~Truthy(text) THEN PyNone
    ELSE LET m == GithubSearch(text.s)
         IN  IF m # <<>> THEN PyStr(m) ELSE PyNone

\* ------------------------------------------------------------------------
\* Records and lists.  A record (a Python dict with the five expected keys)
\* is a value; its `experiences` field is a reference into `lists`, the heap
\* of Python list objects, so that two records can share one list.
\* ------------------------------------------------------------------------

EXPECTED_KEYS == <<"name", "email", "github", "education", "experiences">>

\* a fresh list object holding xs: the heap after the allocation
Alloc(heap, xs) == Append(heap, xs)

\* the record a reference-holding record denotes: its fields, with the
\* contents of its experiences list
Deref(heap, rec) == [rec EXCEPT !.experiences = heap[rec.experiences]]

_empty_result(heap) ==
    [heap   |-> Alloc(heap, <<>>),
     result |-> [name |-> PyNone, email |-> PyNone, github |-> PyNone,
                 education |-> PyNone, experiences |-> Len(heap) + 1]]

Contains(xs, x) == \E k \in 1..Len(xs) : xs[k] = x

\* for item in update["experiences"]: item_s = str(item).strip();
\*     if item_s and item_s not in result["experiences"]: append
\* a variant that appends without the membership test
RECURSIVE AppendExperiences_NoDedup(_, _)
AppendExperiences_NoDedup(lst, items) ==
    IF items = <<>> THEN lst
    ELSE AppendExperiences_NoDedup(
             IF Strip(Head(items)) # <<>>
             THEN Append(lst, Strip(Head(items))) ELSE lst,
             Tail(items))

RECURSIVE AppendExperiences(_, _)
AppendExperiences(lst, items) ==
    IF items = <<>> THEN lst
    ELSE LET item_s == Strip(Head(items))
         IN  AppendExperiences(
                 IF item_s # <<>> /\ ~Contains(lst, item_s)
                 THEN Append(lst, item_s) ELSE lst,
                 Tail(items))

\* a variant in which any truthy value replaces
NewWins(current, new) ==
    IF Truthy(new) THEN PyStr(Strip(new.s)) ELSE current

\* a variant in which a value of equal length replaces too
LongerOrEqualWins(current, new) ==
    IF /\ Truthy(new)
       /\ (~Truthy(current) \/ Len(new.s) >= Len(current.s))
    THEN PyStr(Strip(new.s))
    ELSE current

\* name and education: the partial's value replaces the aggregate's when it is
\* truthy and the aggregate's is falsy or shorter; it is stored stripped
LongerWins(current, new) ==
    IF /\ Truthy(new)
       /\ (~Truthy(current) \/ Len(new.s) > Len(current.s))
    THEN PyStr(Strip(new.s))
    ELSE current

\* a variant that stores whatever the partial's value normalized to
LastSeenWins(current, normalized) == normalized

\* a variant in which the first valid value is kept
FirstValidWins(current, normalized) ==
    IF Truthy(current) THEN current ELSE normalized

\* email and github: a partial's value that normalizes to a match replaces
LastValidWins(current, normalized) ==
    IF Truthy(normalized) THEN normalized ELSE current

\* _merge_results(base, update): result = dict(base) is a shallow copy, so
\* result["experiences"] is base's list object and the appends go to it.
_merge_results(heap, base, update) ==
    LET result == [base EXCEPT
                     !.name      = LongerWins(base.name, update.name),
                     !.email     = LastValidWins(base.email,
                                                 _normalize_email(update.email)),
                     !.github    = LastValidWins(base.github,
                                                 _normalize_github(update.github)),
                     !.education = LongerWins(base.education, update.education)]
        ref    == result.experiences
    IN  [heap   |-> [heap EXCEPT ![ref] =
                        AppendExperiences(heap[ref], heap[update.experiences])],
         result |-> result]

\* ------------------------------------------------------------------------
\* _extract_from_page: one attempt.  The service's answer is a text; it is
\* modelled as a sequence of tokens: "{" and "}", "m" for the text of the
\* members of one JSON object (whose decoded value is `payload`), "n" for
\* the text of a JSON value that is not an object, "t" for any other text.
\* ------------------------------------------------------------------------

EmptyDict == <<>>

DictGet(d, k) == IF k \in DOMAIN d THEN d[k] ELSE PyNone

\* json.loads: the texts that are one JSON value
JsonParses(content) ==
    content \in {<<"{", "}">>, <<"{", "m", "}">>, <<"n">>}

JsonIsObject(content) == content \in {<<"{", "}">>, <<"{", "m", "}">>}

JsonLoads(content, payload) ==
    IF content = <<"{", "m", "}">> THEN payload ELSE EmptyDict

\* re.search(r"\{[\s\S]*\}", content): from the first "{" to the last "}"
BraceSearch(content) ==
    LET opens  == {i \in 1..Len(content) : content[i] = "{"}
        closes == {i \in 1..Len(content) : content[i] = "}"}
    IN  IF opens = {} \/ closes = {} \/ Max(closes) < Min(opens) THEN <<>>
        ELSE Slice(content, Min(opens), Max(closes))

\* content = resp.choices[0].message.content or "{}", then lines 90-95:
\* [raised, isDict, data]
ParseContent(content0, payload) ==
    LET content == IF content0 = <<>> THEN <<"{", "}">> ELSE content0
        m       == BraceSearch(content)
    IN  IF JsonParses(content)
        THEN [raised |-> FALSE, isDict |-> JsonIsObject(content),
              data |-> JsonLoads(content, payload)]
        ELSE IF m = <<>>
        THEN [raised |-> FALSE, isDict |-> TRUE, data |-> EmptyDict]
        ELSE IF JsonParses(m)
        THEN [raised |-> FALSE, isDict |-> TRUE, data |-> JsonLoads(m, payload)]
        ELSE [raised |-> TRUE, isDict |-> FALSE, data |-> EmptyDict]

RECURSIVE NormalizeExperiences(_)
NormalizeExperiences(items) ==
    IF items = <<>> THEN <<>>
    ELSE LET x == Strip(PyToStr(Head(items)))
         IN  IF x # <<>> THEN <<x>> \o NormalizeExperiences(Tail(items))
             ELSE NormalizeExperiences(Tail(items))

\* str(val).strip() if isinstance(val, str) and val.strip() else None
NormalizeText(val) ==
    IF val.t = "str" /\ Strip(val.s) # <<>> THEN PyStr(Strip(val.s)) ELSE PyNone

\* lines 97-111 on a dict `data`: whether normalization raises, and the
\* partial record (with its new experiences list) when it does not
Normalize(heap, data) ==
    LET exps == DictGet(data, "experiences")
        xs   == IF exps.t = "list" THEN NormalizeExperiences(exps.items) ELSE <<>>
    IN  [raised |-> \/ RaisesTypeError(DictGet(data, "email"))
                    \/ RaisesTypeError(DictGet(data, "github")),
         heap   |-> Alloc(heap, xs),
         result |-> [name        |-> NormalizeText(DictGet(data, "name")),
                     email       |-> _normalize_email(DictGet(data, "email")),
                     github      |-> _normalize_github(DictGet(data, "github")),
                     education   |-> NormalizeText(DictGet(data, "education")),
                     experiences |-> Len(heap) + 1]]

\* One attempt of _extract_from_page on a service response
\* [raises, content, payload]: [raised, heap, result]
_extract_from_page(heap, resp) ==
    LET parsed == ParseContent(resp.content, resp.payload)
        norm   == Normalize(heap, parsed.data)
    IN  IF resp.raises \/ parsed.raised \/ ~parsed.isDict \/ norm.raised
        THEN [raised |-> TRUE, heap |-> heap, result |-> PyNone]
        ELSE [raised |-> FALSE, heap |-> norm.heap, result |-> norm.result]

\* ------------------------------------------------------------------------
\* tenacity: @retry(stop=stop_after_attempt(3),
\*                  wait=wait_exponential(multiplier=1, min=1, max=10),
\*                  reraise=True)
\* ------------------------------------------------------------------------

StopAfterAttempt == 3

WaitMultiplier == 1

WaitMin == 1

WaitMax == 10

RECURSIVE Pow2(_)
Pow2(n) == IF n = 0 THEN 1 ELSE 2 * Pow2(n - 1)

Clamp(lo, x, hi) == IF x < lo THEN lo ELSE IF x > hi THEN hi ELSE x

\* the wait after the failed attempt number n
wait_exponential(n) == Clamp(WaitMin, WaitMultiplier * Pow2(n - 1), WaitMax)

\* a variant that allows one attempt more
stop_after_attempt_4(n) == n >= StopAfterAttempt + 1

\* stop_after_attempt(3): no further attempt after the failed attempt n
stop_after_attempt(n) == n >= StopAfterAttempt

\* _extract_from_page with its decorator, as one call: attempt n gets the
\* response plan[n]; the first attempt that does not raise returns, a failed
\* attempt is followed by the next one unless stop_after_attempt says stop,
\* and then the exception is re-raised: [raised, heap, result]
RECURSIVE ExtractWithRetry(_, _, _)
RetryOrReraise(heap, plan, n, a) ==
    IF ~a.raised \/ stop_after_attempt(n) THEN a
    ELSE ExtractWithRetry(heap, plan, n + 1)

ExtractWithRetry(heap, plan, n) ==
    RetryOrReraise(heap, plan, n, _extract_from_page(heap, plan[n]))

\* extract_resume_from_pages as one call, from page k on: st is
\* [heap, merged]; plans[k] holds the responses to the attempts of page k
RECURSIVE ExtractFromPage(_, _, _, _)
AfterMerge(m, pp, plans, k) ==
    ExtractFromPage([heap |-> m.heap, merged |-> m.result], pp, plans, k + 1)

AfterAttempts(st, a, pp, plans, k) ==
    IF a.raised THEN ExtractFromPage(st, pp, plans, k + 1)
    ELSE AfterMerge(_merge_results(a.heap, st.merged, a.result), pp, plans, k)

ExtractFromPage(st, pp, plans, k) ==
    IF k > Len(pp) THEN st
    ELSE IF pp[k] = "" THEN ExtractFromPage(st, pp, plans, k + 1)
    ELSE AfterAttempts(st, ExtractWithRetry(st.heap, plans[k], 1), pp, plans, k)

StartOfFold(e) == [heap |-> e.heap, merged |-> e.result]

EndOfFold(st) == Deref(st.heap, st.merged)

\* the value of the record extract_resume_from_pages returns
extract_resume_from_pages(pp, plans) ==
    EndOfFold(ExtractFromPage(StartOfFold(_empty_result(<<>>)), pp, plans, 1))

\* ------------------------------------------------------------------------
\* scraper/main.py and scraper/utils.py: helpers of the orchestrator
\* ------------------------------------------------------------------------

\* _pick_api_key(env_key, config_keys, idx)
_pick_api_key(env_key, config_keys, idx) ==
    IF Truthy(config_keys)
    THEN config_keys.items[(idx % Len(config_keys.items)) + 1]
    ELSE env_key

\* hash_for_url: the first 12 hex digits of SHA-256, a fixed function of the
\* URL; the digits themselves are not computed
hash_for_url(url) == <<"sha256[:12]", url>>

\* ------------------------------------------------------------------------
\* Inputs: the texts the service's answers are made of
\* ------------------------------------------------------------------------

S_Jo == <<"J", "o">>

S_Al == <<"A", "l">>

S_Joanna == <<"J", "o", "a", "n", "n", "a">>

S_Jo_padded == <<" ", "J", "o", " ">>

S_blank == <<" ", " ">>

S_a_x_com == <<"a", "@", "x", ".", "c", "o", "m">>

S_b_y_com == <<"b", "@", "y", ".", "c", "o", "m">>

S_b_y_com_wrapped == <<"<", "b", "@", "y", ".", "c", "o", "m", ">">>

S_not_an_email == <<"n", "o", "t", "-", "a", "n", "-", "e", "m", "a", "i", "l">>

S_github_jo == <<"h", "t", "t", "p", "s", ":", "/", "/", "g", "i", "t", "h", "u", "b", ".", "c", "o", "m", "/", "j", "o">>

S_github_al == <<"h", "t", "t", "p", ":", "/", "/", "w", "w", "w", ".", "G", "i", "t", "H", "u", "b", ".", "c", "o", "m", "/", "a", "l">>

S_github_no_scheme == <<"g", "i", "t", "h", "u", "b", ".", "c", "o", "m", "/", "a", "l">>

S_BSc == <<"B", "S", "c">>

S_PhD == <<"P", "h", "D">>

S_MSc_CS_padded == <<" ", "M", "S", "c", " ", "C", "S", " ">>

S_X == <<"X">>

S_Y == <<"Y">>

S_Y_padded == <<" ", "Y", " ">>

S_Z == <<"Z">>

\* the decoded members of the service's JSON object
Payloads ==
    { [name |-> PyStr(S_Jo), email |-> PyStr(S_a_x_com),
       experiences |-> PyList(<<PyStr(S_X)>>)],
      [name |-> PyStr(S_Joanna), email |-> PyStr(S_not_an_email),
       github |-> PyStr(S_github_jo), education |-> PyNone,
       experiences |-> PyList(<<PyStr(S_X), PyStr(S_Y)>>)],
      [name |-> PyStr(S_Al), email |-> PyStr(S_b_y_com_wrapped),
       github |-> PyStr(S_github_no_scheme), education |-> PyStr(S_BSc),
       experiences |-> PyList(<<PyStr(S_Y_padded), PyStr(S_Y), PyStr(<<>>), PyNum>>)],
      [name |-> PyStr(S_Jo_padded), email |-> PyNone,
       github |-> PyStr(S_github_al), education |-> PyStr(S_PhD),
       experiences |-> PyStr(S_X)],
      [name |-> PyNum, email |-> PyNum, experiences |-> PyList(<<>>)],
      [email |-> PyStr(S_b_y_com), education |-> PyStr(S_MSc_CS_padded),
       experiences |-> PyList(<<PyStr(S_Z), PyStr(S_X)>>)],
      [name |-> PyStr(S_blank), education |-> PyStr(<<>>),
       experiences |-> PyList(<<>>)] }

AnyPayload == CHOOSE d \in Payloads : TRUE

\* the texts of the service's answers: a JSON object, an object inside prose,
\* the empty object, no content, prose, braces around text that is no JSON,
\* two objects in a row, a JSON value that is no object, and cut-off objects
ContentsWithMembers == {<<"{", "m", "}">>, <<"t", "{", "m", "}", "t">>}

ContentsWithoutMembers ==
    {<<"{", "}">>, <<>>, <<"t">>, <<"{", "t", "}">>,
     <<"{", "m", "}", "t", "{", "m", "}">>, <<"n">>, <<"}", "t", "{">>,
     <<"{", "m">>}

\* what one service call can do: raise, or answer with a content
Responses ==
    {[raises |-> TRUE, content |-> <<>>, payload |-> AnyPayload]}
    \cup {[raises |-> FALSE, content |-> c, payload |-> d] :
             c \in ContentsWithMembers, d \in Payloads}
    \cup {[raises |-> FALSE, content |-> c, payload |-> AnyPayload] :
             c \in ContentsWithoutMembers}

\* the texts of a document's pages: a blank page, a page with text
PageTexts == {"", "text"}

MaxPages == 3

RECURSIVE SeqsUpTo(_, _)
SeqsUpTo(S, n) ==
    IF n = 0 THEN {<<>>}
    ELSE LET shorter == SeqsUpTo(S, n - 1)
         IN  shorter \cup {Append(q, x) : q \in {r \in shorter : Len(r) = n - 1}, x \in S}

\* ------------------------------------------------------------------------
\* State
\* ------------------------------------------------------------------------

VARIABLES
    \* extract_resume_from_pages (openai_extractor.py 114-126)
    pages,           \* the argument: the document's page texts
    page_idx,        \* the position of `for page_text in pages` (0: before)
    pc,              \* "loop" | "call" | "done"
    merged,          \* the local `merged`: a record whose list is in `lists`
    lists,           \* the heap of list objects
    \* _extract_from_page under tenacity (openai_extractor.py 79-111)
    attempt_number,  \* tenacity's attempt number for the current page
    sleeps,          \* the waits tenacity has slept for the current page
    calls,           \* the service calls made for the current page
    resp,            \* the service's response to the last call
    page_result,     \* the record the last successful attempt returned
    \* what has happened, for stating the properties
    outcome,         \* page -> "pending" | "blank" | "ok" | "failed"
    invoked,         \* the pages _extract_from_page was called for, in order
    partials,        \* the partial records extracted so far: [page, rec]
    base,            \* the `base` argument of the last _merge_results call
    base_before,     \* what `base` denoted when that call was made
    update_before    \* what `update` denoted when that call was made

VARIABLES
    \* main (main.py 94-207)
    config,          \* args.config and what the file it names holds
    target,          \* whether --url or --query was given
    env_api_key,     \* os.getenv("OPENAI_API_KEY")
    api_keys,        \* config_data.get("api_keys"), or None
    njobs,           \* len(jobs)
    main_pc,         \* where main is
    exit_code,       \* what main returned (-1: has not returned)
    idx,             \* the job being processed (enumerate(jobs, start=1))
    pdf_urls,        \* the job's candidate URLs
    r_idx,           \* enumerate(pdf_urls): the position of the next URL
    rows,            \* the job's rows
    out_file,        \* the lines of args.out
    total_rows_written,
    pdf_path,        \* download_pdf's result for the current URL
    main_pages,      \* the local `pages` of main
    \* extract_pdf_pages_text_with_timeout and _extract_worker (pdf_utils.py 37-59)
    doc,             \* the document in the file: [pages, size]
    w_pc,            \* the worker process: "none" | "extracting" | "exiting"
                     \*    | "exited" | "terminated"
    q_msg,           \* the object given to q.put
    q_put,           \* whether q.put was called
    q_unsent,        \* how much of the message the feeder thread still holds
    q_pipe,          \* how much of the message is in the queue's pipe
    \* what has happened, for stating the properties
    cur,             \* the current candidate URL's run of the Isolation Runner
    log              \* one entry per candidate URL processed so far

main_vars ==
    <<config, target, env_api_key, api_keys, njobs, main_pc, exit_code, idx,
      pdf_urls, r_idx,
      rows, out_file, total_rows_written, pdf_path, main_pages, doc, w_pc,
      q_msg, q_put, q_unsent, q_pipe, cur, log>>

extractor_vars ==
    <<pages, page_idx, pc, merged, lists, attempt_number, sleeps, calls,
      resp, page_result, outcome, invoked, partials, base, base_before,
      update_before>>

NoResponse == [raises |-> FALSE, content |-> <<>>, payload |-> AnyPayload]

\* client = OpenAI(...); merged = _empty_result()
InitExtractor(pp) ==
    LET e == _empty_result(<<>>)
    IN  /\ pages = pp
        /\ page_idx = 0
        /\ pc = "loop"
        /\ merged = e.result
        /\ lists = e.heap
        /\ attempt_number = 0
        /\ sleeps = <<>>
        /\ calls = 0
        /\ resp = NoResponse
        /\ page_result = e.result
        /\ outcome = [k \in 1..Len(pp) |-> "pending"]
        /\ invoked = <<>>
        /\ partials = <<>>
        /\ base = e.result
        /\ base_before = Deref(e.heap, e.result)
        /\ update_before = Deref(e.heap, e.result)


attempt_vars == <<attempt_number, sleeps, calls, resp>>

merge_vars == <<merged, lists, page_result, partials, base, base_before, update_before>>

\* a variant without the test for an empty page text
NextPage_CallsForBlankPage ==
    /\ pc = "loop"
    /\ page_idx < Len(pages)
    /\ page_idx' = page_idx + 1
    /\ pc' = "call"
    /\ attempt_number' = 1
    /\ sleeps' = <<>>
    /\ calls' = 0
    /\ resp' = NoResponse
    /\ invoked' = Append(invoked, page_idx + 1)
    /\ UNCHANGED <<pages, outcome, merge_vars>>
    /\ UNCHANGED main_vars

\* for page_text in pages: if not page_text: continue
NextPage ==
    /\ pc = "loop"
    /\ page_idx < Len(pages)
    /\ page_idx' = page_idx + 1
    /\ IF pages[page_idx + 1] = ""
       THEN /\ outcome' = [outcome EXCEPT ![page_idx + 1] = "blank"]
            /\ UNCHANGED <<pc, attempt_vars, invoked>>
       ELSE /\ pc' = "call"
            /\ attempt_number' = 1
            /\ sleeps' = <<>>
            /\ calls' = 0
            /\ resp' = NoResponse
            /\ invoked' = Append(invoked, page_idx + 1)
            /\ UNCHANGED outcome
    /\ UNCHANGED <<pages, merge_vars>>
    /\ UNCHANGED main_vars

\* an attempt returns a record: merged = _merge_results(merged, page_result)
AttemptSucceeds ==
    /\ pc = "call"
    /\ \E r \in Responses :
       \E a \in {_extract_from_page(lists, r)} :
          /\ ~a.raised
          /\ \E m \in {_merge_results(a.heap, merged, a.result)} :
                /\ merged' = m.result
                /\ lists' = m.heap
          /\ resp' = r
          /\ page_result' = a.result
          /\ partials' = Append(partials, [page |-> page_idx,
                                           rec  |-> Deref(a.heap, a.result)])
          /\ base' = merged
          /\ base_before' = Deref(a.heap, merged)
          /\ update_before' = Deref(a.heap, a.result)
    /\ calls' = calls + 1
    /\ outcome' = [outcome EXCEPT ![page_idx] = "ok"]
    /\ pc' = "loop"
    /\ UNCHANGED <<pages, page_idx, attempt_number, sleeps, invoked>>
    /\ UNCHANGED main_vars

\* an attempt raises and tenacity sleeps and tries again
AttemptRetries ==
    /\ pc = "call"
    /\ ~stop_after_attempt(attempt_number)
    /\ \E r \in Responses :
          /\ _extract_from_page(lists, r).raised
          /\ resp' = r
    /\ calls' = calls + 1
    /\ sleeps' = Append(sleeps, wait_exponential(attempt_number))
    /\ attempt_number' = attempt_number + 1
    /\ UNCHANGED <<pages, page_idx, pc, outcome, invoked, merge_vars>>
    /\ UNCHANGED main_vars

\* a variant in which the failure of a page ends the loop (break)
AttemptGivesUp_Breaks ==
    /\ pc = "call"
    /\ stop_after_attempt(attempt_number)
    /\ \E r \in Responses :
          /\ _extract_from_page(lists, r).raised
          /\ resp' = r
    /\ calls' = calls + 1
    /\ outcome' = [outcome EXCEPT ![page_idx] = "failed"]
    /\ pc' = "done"
    /\ UNCHANGED <<pages, page_idx, attempt_number, sleeps, invoked, merge_vars>>
    /\ UNCHANGED main_vars

\* the last attempt raises; reraise=True hands its exception to
\* extract_resume_from_pages, whose `except Exception: continue` skips the page
AttemptGivesUp ==
    /\ pc = "call"
    /\ stop_after_attempt(attempt_number)
    /\ \E r \in Responses :
          /\ _extract_from_page(lists, r).raised
          /\ resp' = r
    /\ calls' = calls + 1
    /\ outcome' = [outcome EXCEPT ![page_idx] = "failed"]
    /\ pc' = "loop"
    /\ UNCHANGED <<pages, page_idx, attempt_number, sleeps, invoked, merge_vars>>
    /\ UNCHANGED main_vars

\* return merged
Return ==
    /\ pc = "loop"
    /\ page_idx = Len(pages)
    /\ pc' = "done"
    /\ UNCHANGED <<pages, page_idx, outcome, invoked, attempt_vars, merge_vars>>
    /\ UNCHANGED main_vars

\* ------------------------------------------------------------------------
\* Inputs of main
\* ------------------------------------------------------------------------

S_env == <<"e", "n", "v">>

S_k1 == <<"k", "1">>

S_k2 == <<"k", "2">>

\* os.getenv("OPENAI_API_KEY")
EnvKeys == {PyNone, PyStr(S_env)}

\* the "api_keys" of the config file (None: null)
Pools ==
    {PyNone, PyList(<<>>), PyList(<<PyStr(S_k1), PyStr(S_k2)>>),
     PyList(<<PyStr(S_k1), PyStr(<<>>)>>)}

Urls == {"http://a/cv.pdf", "http://b/r.pdf"}

\* download_pdf's dest_path: the download directory and the URL's basename
DestPath(url) ==
    IF url = "http://b/r.pdf" THEN "downloads/r.pdf" ELSE "downloads/cv.pdf"

MaxJobs == 2

\* the candidate URLs of the whole run
MaxCandidates == 3

\* the capacity of the queue's pipe and the size of the largest pickled page
\* list, in the same unit
PipeCap == 2

MaxDocSize == 3

\* the pickled None
NoneSize == 1

\* the documents a downloaded file can hold (what extract_pdf_pages_text
\* finds in the file): its page texts and the size of
\* the pickled list of them
Docs ==
    { [pages |-> <<>>, size |-> 1],
      [pages |-> <<"">>, size |-> 1],
      [pages |-> <<"", "text">>, size |-> PipeCap],
      [pages |-> <<"text", "text">>, size |-> MaxDocSize] }

NoDoc == [pages |-> <<>>, size |-> 0]

S_search == <<"h", "t", "t", "p", ":", "/", "/", "s", "/", "?", "q", "=", "c", "v">>

\* the "urls" lists of a config file: search URLs, and such lists with a
\* blank string in the last place
UrlLists ==
    SeqsUpTo({PyStr(S_search)}, MaxJobs)
       \cup {Append(q, PyStr(S_blank)) : q \in SeqsUpTo({PyStr(S_search)}, MaxJobs - 1)}

\* the JSON objects a config file can hold (a record is a dict)
ConfigObjects ==
    {[api_keys |-> p, urls |-> PyList(us)] : p \in Pools, us \in UrlLists}
       \cup {EmptyDict}

\* the JSON values that are not objects: null, [], a non-empty list
ConfigOthers == {PyNone, PyList(<<>>), PyList(<<PyStr(S_search)>>)}

NoConfig == [kind |-> "absent", object |-> FALSE, data |-> PyNone]

\* what --config names: no file given, a file that cannot be opened, a file
\* that is not JSON, a JSON file
ConfigFiles ==
    {NoConfig,
     [kind |-> "unreadable", object |-> FALSE, data |-> PyNone],
     [kind |-> "invalid", object |-> FALSE, data |-> PyNone]}
       \cup {[kind |-> "json", object |-> TRUE, data |-> d] : d \in ConfigObjects}
       \cup {[kind |-> "json", object |-> FALSE, data |-> v] : v \in ConfigOthers}

\* the command lines: --url/--query matter only without --config
Invocations ==
    {[config |-> c, target |-> FALSE] : c \in ConfigFiles}
       \cup {[config |-> NoConfig, target |-> TRUE]}

\* the responses the service gives to the attempts of one page
R_raises == [raises |-> TRUE, content |-> <<>>, payload |-> AnyPayload]

R_answers ==
    [raises |-> FALSE, content |-> <<"{", "m", "}">>,
     payload |-> [name |-> PyStr(S_Jo), email |-> PyStr(S_a_x_com),
                  experiences |-> PyList(<<PyStr(S_X)>>)]]

AttemptPlans == {<<R_raises, R_raises, R_raises>>, <<R_raises, R_answers, R_raises>>}

\* the lists of distinct URLs of length at most n
InjectiveSeqs(S, n) ==
    {q \in SeqsUpTo(S, n) : \A j, k \in 1..Len(q) : j # k => q[j] # q[k]}

\* ------------------------------------------------------------------------
\* main and the Isolation Runner
\* ------------------------------------------------------------------------

NoRun ==
    [url |-> "", deadline |-> FALSE, worker_at_deadline |-> "none",
     extraction |-> "none", alive_at_check |-> FALSE, returned |-> FALSE,
     finished |-> FALSE, extract_calls |-> 0, plans |-> <<>>]

MainStart(e, c, t) ==
    /\ config = c
    /\ target = t
    /\ env_api_key = e
    /\ api_keys = PyNone
    /\ njobs = 0
    /\ main_pc = "load_config"
    /\ exit_code = -1
    /\ idx = 0
    /\ pdf_urls = <<>>
    /\ r_idx = 0
    /\ rows = <<>>
    /\ out_file = <<>>
    /\ total_rows_written = 0
    /\ pdf_path = ""
    /\ main_pages = PyNone
    /\ doc = NoDoc
    /\ w_pc = "none"
    /\ q_msg = PyNone
    /\ q_put = FALSE
    /\ q_unsent = 0
    /\ q_pipe = 0
    /\ cur = NoRun
    /\ log = <<>>

\* the extractor alone: a document's pages are handed to
\* extract_resume_from_pages
Init ==
    /\ \E pp \in SeqsUpTo(PageTexts, MaxPages) : InitExtractor(pp)
    /\ MainStart(PyNone, NoConfig, FALSE)

\* the whole program
InitMain ==
    /\ InitExtractor(<<>>)
    /\ \E e \in EnvKeys, i \in Invocations : MainStart(e, i.config, i.target)

job_vars == <<idx, pdf_urls, r_idx, rows>>

config_vars == <<config, target, env_api_key, api_keys, njobs>>

file_vars == <<out_file, total_rows_written>>

worker_vars == <<doc, w_pc, q_msg, q_put, q_unsent, q_pipe>>

\* main.py 54-57, 98-105: _load_jobs_from_config opens the file and
\* returns json.load's value; an exception ends the run with 3
LoadConfig ==
    /\ main_pc = "load_config"
    /\ IF config.kind \in {"unreadable", "invalid"}
       THEN main_pc' = "returned" /\ exit_code' = 3
       ELSE main_pc' = "startup" /\ UNCHANGED exit_code
    /\ UNCHANGED <<extractor_vars, config_vars, job_vars, file_vars, pdf_path, main_pages,
                   worker_vars, cur, log>>

\* the local config_data: {} without a config file, else the loaded value
ConfigData ==
    IF config.kind = "json" THEN [object |-> config.object, data |-> config.data]
    ELSE [object |-> TRUE, data |-> EmptyDict]

\* `if config_data`
ConfigTruthy ==
    IF ConfigData.object THEN DOMAIN ConfigData.data # {} ELSE Truthy(ConfigData.data)

\* main.py 107-112: api_keys = config_data.get("api_keys") if config_data
\* else None (a truthy value that is no dict has no .get: AttributeError,
\* which nothing catches); no credential anywhere ends the run with 2
Startup ==
    /\ main_pc = "startup"
    /\ IF ConfigTruthy /\ ~ConfigData.object
       THEN /\ main_pc' = "raised"
            /\ exit_code' = 1
            /\ UNCHANGED api_keys
       ELSE \E keys \in {IF ConfigTruthy THEN DictGet(ConfigData.data, "api_keys")
                                          ELSE PyNone} :
               /\ api_keys' = keys
               /\ IF ~Truthy(env_api_key) /\ ~Truthy(keys)
                  THEN main_pc' = "returned" /\ exit_code' = 2
                  ELSE main_pc' = "build_jobs" /\ UNCHANGED exit_code
    /\ UNCHANGED <<extractor_vars, config, target, env_api_key, njobs, job_vars,
                   file_vars, pdf_path, main_pages, worker_vars, cur, log>>

\* _expand_jobs_from_config: one job per entry of "urls" that is a string
\* with something other than whitespace in it
_expand_jobs_from_config(data) ==
    SelectSeq(IF Truthy(DictGet(data, "urls")) THEN DictGet(data, "urls").items
              ELSE <<>>,
              LAMBDA u : u.t = "str" /\ Strip(u.s) # <<>>)

\* main.py 117-131: the job list: from the config file (data.get of a value
\* that is no dict: AttributeError), or the one job of the command line;
\* without a config file and without --url/--query the run ends with 4
BuildJobs ==
    /\ main_pc = "build_jobs"
    /\ IF config.kind # "absent"
       THEN IF ~ConfigData.object
            THEN /\ main_pc' = "raised"
                 /\ exit_code' = 1
                 /\ UNCHANGED njobs
            ELSE /\ njobs' = Len(_expand_jobs_from_config(ConfigData.data))
                 /\ main_pc' = "next_job"
                 /\ UNCHANGED exit_code
       ELSE IF ~target
            THEN /\ main_pc' = "returned"
                 /\ exit_code' = 4
                 /\ UNCHANGED njobs
            ELSE /\ njobs' = 1
                 /\ main_pc' = "next_job"
                 /\ UNCHANGED exit_code
    /\ UNCHANGED <<extractor_vars, config, target, env_api_key, api_keys, job_vars,
                   file_vars, pdf_path, main_pages, worker_vars, cur, log>>

CandidatesSoFar == Len(log)

\* main.py 134-176: the next job; the discovery collaborators give its
\* candidate URLs, which main deduplicates through a set
StartJob ==
    /\ main_pc = "next_job"
    /\ idx < njobs
    /\ idx' = idx + 1
    /\ \E q \in InjectiveSeqs(Urls, Cardinality(Urls)) :
          /\ CandidatesSoFar + Len(q) <= MaxCandidates
          /\ pdf_urls' = q
    /\ r_idx' = 0
    /\ rows' = <<>>
    /\ main_pc' = "next_url"
    /\ UNCHANGED <<extractor_vars, config_vars, exit_code, file_vars, pdf_path, main_pages,
                   worker_vars, cur, log>>

\* main.py 134-170: fetch_result_links or discover_pdf_links_from_pages
\* raises (the browser cannot load the page); nothing in main catches it
DiscoveryRaises ==
    /\ main_pc = "next_job"
    /\ idx < njobs
    /\ idx' = idx + 1
    /\ main_pc' = "raised"
    /\ exit_code' = 1
    /\ UNCHANGED <<extractor_vars, config_vars, pdf_urls, r_idx, rows, file_vars, pdf_path,
                   main_pages, worker_vars, cur, log>>

LogEntry(result, key) ==
    [job |-> idx, r_idx |-> r_idx, url |-> pdf_urls[r_idx + 1],
     result |-> result, key |-> key]

\* main.py 178-181: download_pdf fails and the URL is skipped
DownloadFails ==
    /\ main_pc = "next_url"
    /\ r_idx < Len(pdf_urls)
    /\ pdf_path' = ""
    /\ log' = Append(log, LogEntry("download failed", PyNone))
    /\ r_idx' = r_idx + 1
    /\ cur' = NoRun
    /\ UNCHANGED <<extractor_vars, config_vars, main_pc, exit_code, idx, pdf_urls, rows,
                   file_vars, main_pages, worker_vars>>

\* main.py 179, pdf_utils.py 46-48: the download succeeds; q = Queue();
\* p = Process(...); p.start()
DownloadAndStartWorker ==
    /\ main_pc = "next_url"
    /\ r_idx < Len(pdf_urls)
    /\ pdf_path' = DestPath(pdf_urls[r_idx + 1])
    /\ doc' = NoDoc
    /\ w_pc' = "extracting"
    /\ q_msg' = PyNone
    /\ q_put' = FALSE
    /\ q_unsent' = 0
    /\ q_pipe' = 0
    /\ cur' = [NoRun EXCEPT !.url = pdf_urls[r_idx + 1], !.extraction = "running"]
    /\ main_pc' = "join"
    /\ UNCHANGED <<extractor_vars, config_vars, exit_code, job_vars, file_vars, main_pages, log>>

\* _extract_worker 39-40: extract_pdf_pages_text returns and q.put(pages)
\* hands the list to the queue's feeder thread; the function returns and the
\* process starts to exit
WorkerPutsPages ==
    /\ w_pc = "extracting"
    /\ \E d \in Docs :
          /\ doc' = d
          /\ q_msg' = PyList(d.pages)
          /\ q_unsent' = d.size
    /\ q_put' = TRUE
    /\ w_pc' = "exiting"
    /\ cur' = [cur EXCEPT !.extraction = "returned"]
    /\ UNCHANGED <<extractor_vars, config_vars, main_pc, exit_code, job_vars, file_vars,
                   pdf_path, main_pages, q_pipe, log>>

\* _extract_worker 41-42: extract_pdf_pages_text raises and q.put(None)
WorkerPutsNone ==
    /\ w_pc = "extracting"
    /\ q_msg' = PyNone
    /\ q_put' = TRUE
    /\ q_unsent' = NoneSize
    /\ w_pc' = "exiting"
    /\ cur' = [cur EXCEPT !.extraction = "raised"]
    /\ UNCHANGED <<extractor_vars, config_vars, main_pc, exit_code, job_vars, file_vars,
                   pdf_path, main_pages, doc, q_pipe, log>>

\* the extraction library takes the worker process down: nothing is put
WorkerCrashes ==
    /\ w_pc = "extracting"
    /\ w_pc' = "exited"
    /\ cur' = [cur EXCEPT !.extraction = "crashed"]
    /\ UNCHANGED <<extractor_vars, config_vars, main_pc, exit_code, job_vars, file_vars,
                   pdf_path, main_pages, doc, q_msg, q_put, q_unsent, q_pipe, log>>

PipeFree == PipeCap - q_pipe

\* multiprocessing.Queue's feeder thread writes the pickled object to the
\* pipe: as much as the pipe takes; the write blocks while the pipe is full
\* (nobody reads the pipe before the parent's q.get_nowait)
FeederWrites ==
    /\ w_pc = "exiting"
    /\ q_unsent > 0
    /\ PipeFree > 0
    /\ \E n \in {IF q_unsent < PipeFree THEN q_unsent ELSE PipeFree} :
          /\ q_unsent' = q_unsent - n
          /\ q_pipe' = q_pipe + n
    /\ UNCHANGED <<extractor_vars, config_vars, main_pc, exit_code, job_vars, file_vars,
                   pdf_path, main_pages, doc, w_pc, q_msg, q_put, cur, log>>

\* the process exits once the feeder thread has written everything (a
\* process that has put to a queue joins the feeder thread at exit)
WorkerExits ==
    /\ w_pc = "exiting"
    /\ q_unsent = 0
    /\ w_pc' = "exited"
    /\ UNCHANGED <<extractor_vars, config_vars, main_pc, exit_code, job_vars, file_vars,
                   pdf_path, main_pages, doc, q_msg, q_put, q_unsent, q_pipe,
                   cur, log>>

WorkerAlive == w_pc \in {"extracting", "exiting"}

\* what the worker is doing: "blocked" when its feeder thread is stopped at
\* a full pipe
WorkerPhase ==
    IF w_pc = "exiting" /\ q_unsent > 0 /\ PipeFree = 0 THEN "blocked" ELSE w_pc

\* pdf_utils.py 49: p.join(timeout_seconds) returns because the worker exited
JoinReturns ==
    /\ main_pc = "join"
    /\ ~WorkerAlive
    /\ main_pc' = "after_join"
    /\ UNCHANGED <<extractor_vars, config_vars, exit_code, job_vars, file_vars, pdf_path,
                   main_pages, worker_vars, cur, log>>

\* pdf_utils.py 49: p.join(timeout_seconds) returns because the deadline
\* has elapsed
JoinTimesOut ==
    /\ main_pc = "join"
    /\ main_pc' = "after_join"
    /\ cur' = [cur EXCEPT !.deadline = TRUE, !.worker_at_deadline = WorkerPhase]
    /\ UNCHANGED <<extractor_vars, config_vars, exit_code, job_vars, file_vars, pdf_path,
                   main_pages, worker_vars, log>>

\* a variant that returns None without terminating the worker
RunnerTerminates_LeavesWorker ==
    /\ main_pc = "after_join"
    /\ WorkerAlive
    /\ main_pages' = PyNone
    /\ cur' = [cur EXCEPT !.alive_at_check = TRUE, !.returned = TRUE]
    /\ main_pc' = "pages"
    /\ UNCHANGED <<extractor_vars, config_vars, exit_code, job_vars, file_vars, pdf_path,
                   doc, w_pc, q_msg, q_put, q_unsent, q_pipe, log>>

\* pdf_utils.py 50-55: p.is_alive() holds: terminate, join, return None
RunnerTerminates ==
    /\ main_pc = "after_join"
    /\ WorkerAlive
    /\ w_pc' = "terminated"
    /\ main_pages' = PyNone
    /\ cur' = [cur EXCEPT !.alive_at_check = TRUE, !.returned = TRUE]
    /\ main_pc' = "pages"
    /\ UNCHANGED <<extractor_vars, config_vars, exit_code, job_vars, file_vars, pdf_path,
                   doc, q_msg, q_put, q_unsent, q_pipe, log>>

\* q.get_nowait(): the object, when all of it is in the pipe; queue.Empty
\* otherwise
MessageInPipe == q_put /\ q_unsent = 0 /\ q_pipe > 0

\* pdf_utils.py 56-59: the worker is not alive: return q.get_nowait(), or
\* None when that raises
RunnerGets ==
    /\ main_pc = "after_join"
    /\ ~WorkerAlive
    /\ main_pages' = IF MessageInPipe THEN q_msg ELSE PyNone
    /\ q_pipe' = IF MessageInPipe THEN 0 ELSE q_pipe
    /\ cur' = [cur EXCEPT !.returned = TRUE]
    /\ main_pc' = "pages"
    /\ UNCHANGED <<extractor_vars, config_vars, exit_code, job_vars, file_vars, pdf_path,
                   doc, w_pc, q_msg, q_put, q_unsent, log>>

\* the runner's locals (the process object, the queue) are gone
WorkerGone ==
    /\ doc' = NoDoc
    /\ w_pc' = "none"
    /\ q_msg' = PyNone
    /\ q_put' = FALSE
    /\ q_unsent' = 0
    /\ q_pipe' = 0

\* a variant in which a document without pages ends the run
SkipNoPages_Aborts ==
    /\ main_pc = "pages"
    /\ main_pages = PyNone
    /\ log' = Append(log, LogEntry("no pages", PyNone))
    /\ cur' = [cur EXCEPT !.finished = TRUE]
    /\ main_pc' = "raised"
    /\ exit_code' = 1
    /\ WorkerGone
    /\ UNCHANGED <<extractor_vars, config_vars, job_vars, file_vars, pdf_path, main_pages>>

\* main.py 183-184: if pages is None: continue
SkipNoPages ==
    /\ main_pc = "pages"
    /\ main_pages = PyNone
    /\ log' = Append(log, LogEntry("no pages", PyNone))
    /\ r_idx' = r_idx + 1
    /\ cur' = [cur EXCEPT !.finished = TRUE]
    /\ main_pc' = "next_url"
    /\ WorkerGone
    /\ UNCHANGED <<extractor_vars, config_vars, exit_code, idx, pdf_urls, rows, file_vars,
                   pdf_path, main_pages>>

\* main.py 186-189: the selected credential is empty: continue
SkipNoKey ==
    /\ main_pc = "pages"
    /\ main_pages # PyNone
    /\ ~Truthy(_pick_api_key(env_api_key, api_keys, r_idx))
    /\ log' = Append(log, LogEntry("no key", _pick_api_key(env_api_key, api_keys, r_idx)))
    /\ r_idx' = r_idx + 1
    /\ cur' = [cur EXCEPT !.finished = TRUE]
    /\ main_pc' = "next_url"
    /\ WorkerGone
    /\ UNCHANGED <<extractor_vars, config_vars, exit_code, idx, pdf_urls, rows, file_vars,
                   pdf_path, main_pages>>

Row(extracted, url, path) ==
    [name |-> extracted.name, email |-> extracted.email,
     github |-> extracted.github, education |-> extracted.education,
     experiences |-> extracted.experiences,
     source_url |-> url, pdf_path |-> path, id |-> hash_for_url(url)]

\* a variant that makes no row of an all-empty record
ExtractAndAppendRow_DropsEmpty ==
    /\ main_pc = "pages"
    /\ main_pages # PyNone
    /\ Truthy(_pick_api_key(env_api_key, api_keys, r_idx))
    /\ \E plans \in [1..Len(main_pages.items) -> AttemptPlans] :
       \E extracted \in {extract_resume_from_pages(main_pages.items, plans)} :
          /\ rows' = IF extracted = extract_resume_from_pages(<<>>, <<>>) THEN rows
                     ELSE Append(rows, Row(extracted, pdf_urls[r_idx + 1], pdf_path))
          /\ cur' = [cur EXCEPT !.finished = TRUE, !.extract_calls = 1,
                                !.plans = plans]
    /\ log' = Append(log, LogEntry("row", _pick_api_key(env_api_key, api_keys, r_idx)))
    /\ r_idx' = r_idx + 1
    /\ main_pc' = "next_url"
    /\ WorkerGone
    /\ UNCHANGED <<extractor_vars, config_vars, exit_code, idx, pdf_urls, file_vars,
                   pdf_path, main_pages>>

\* main.py 186-198: select the credential, extract_resume_from_pages,
\* rows.append(row)
ExtractAndAppendRow ==
    /\ main_pc = "pages"
    /\ main_pages # PyNone
    /\ Truthy(_pick_api_key(env_api_key, api_keys, r_idx))
    /\ \E plans \in [1..Len(main_pages.items) -> AttemptPlans] :
       \E extracted \in {extract_resume_from_pages(main_pages.items, plans)} :
          /\ rows' = Append(rows, Row(extracted, pdf_urls[r_idx + 1], pdf_path))
          /\ cur' = [cur EXCEPT !.finished = TRUE, !.extract_calls = 1,
                                !.plans = plans]
    /\ log' = Append(log, LogEntry("row", _pick_api_key(env_api_key, api_keys, r_idx)))
    /\ r_idx' = r_idx + 1
    /\ main_pc' = "next_url"
    /\ WorkerGone
    /\ UNCHANGED <<extractor_vars, config_vars, exit_code, idx, pdf_urls, file_vars,
                   pdf_path, main_pages>>

\* a variant that opens the output file for writing, not for appending
AppendRows_Overwrites ==
    /\ main_pc = "next_url"
    /\ r_idx = Len(pdf_urls)
    /\ out_file' = rows
    /\ total_rows_written' = total_rows_written + Len(rows)
    /\ main_pc' = "next_job"
    /\ cur' = NoRun
    /\ UNCHANGED <<extractor_vars, config_vars, exit_code, job_vars, pdf_path, main_pages,
                   worker_vars, log>>

\* main.py 200-204: the job's rows are appended to the output file
AppendRows ==
    /\ main_pc = "next_url"
    /\ r_idx = Len(pdf_urls)
    /\ out_file' = out_file \o rows
    /\ total_rows_written' = total_rows_written + Len(rows)
    /\ main_pc' = "next_job"
    /\ cur' = NoRun
    /\ UNCHANGED <<extractor_vars, config_vars, exit_code, job_vars, pdf_path, main_pages,
                   worker_vars, log>>

\* main.py 206-207: return 0
ReturnZero ==
    /\ main_pc = "next_job"
    /\ idx = njobs
    /\ main_pc' = "returned"
    /\ exit_code' = 0
    /\ UNCHANGED <<extractor_vars, config_vars, job_vars, file_vars, pdf_path, main_pages,
                   worker_vars, cur, log>>

vars == <<extractor_vars, main_vars>>

Next == NextPage \/ AttemptSucceeds \/ AttemptRetries \/ AttemptGivesUp \/ Return

Spec == Init /\ [][Next]_vars

NextMain ==
    \/ LoadConfig \/ Startup \/ BuildJobs \/ StartJob \/ DiscoveryRaises
    \/ DownloadFails \/ DownloadAndStartWorker
    \/ WorkerPutsPages \/ WorkerPutsNone \/ WorkerCrashes
    \/ FeederWrites \/ WorkerExits
    \/ JoinReturns \/ JoinTimesOut \/ RunnerTerminates \/ RunnerGets
    \/ SkipNoPages \/ SkipNoKey \/ ExtractAndAppendRow
    \/ AppendRows \/ ReturnZero

SpecMain == InitMain /\ [][NextMain]_vars

\* ------------------------------------------------------------------------
\* Properties of extract_resume_from_pages, _extract_from_page and
\* _merge_results (specification Spec)
\* ------------------------------------------------------------------------

\* the all-empty record, as a value
EmptyValue ==
    [name |-> PyNone, email |-> PyNone, github |-> PyNone,
     education |-> PyNone, experiences |-> <<>>]

\* the value of the record a _merge_results call returned
ResultValue(m) == Deref(m.heap, m.result)

\* _merge_results on record values: the value of the returned record
MergeValue(agg, partial) ==
    ResultValue(_merge_results(<<agg.experiences, partial.experiences>>,
                               [agg EXCEPT !.experiences = 1],
                               [partial EXCEPT !.experiences = 2]))

\* the in-order fold of _merge_results over the first n records of ps
RECURSIVE FoldPartials(_, _)
FoldPartials(ps, n) ==
    IF n = 0 THEN EmptyValue
    ELSE MergeValue(FoldPartials(ps, n - 1), ps[n].rec)

PagesWith(o) == {k \in 1..Len(pages) : outcome[k] = o}

\* C1: the aggregate is, in every state and so at the return, the in-order
\* fold of _merge_results from the all-empty record over the partial records
\* of exactly the pages whose extraction succeeded (a page that failed after
\* all retries contributes nothing, so the aggregate stays as it was), and at
\* the return every page has been processed: a failure on page k stops no
\* later page.
C1_AggregateIsFoldOfExtractedPages ==
    /\ Deref(lists, merged) = FoldPartials(partials, Len(partials))
    /\ {partials[n].page : n \in 1..Len(partials)} = PagesWith("ok")
    /\ \A n \in 1..(Len(partials) - 1) : partials[n].page < partials[n + 1].page
    /\ pc = "done" =>
          \A k \in 1..Len(pages) :
             IF pages[k] = "" THEN outcome[k] = "blank"
             ELSE outcome[k] \in {"ok", "failed"}

\* C1 witness: a page extracted, then a page that failed all its attempts,
\* then a page extracted and merged, and the call has returned
C1_Witness ==
    /\ pc = "done"
    /\ Len(pages) = 3
    /\ outcome = <<"ok", "failed", "ok">>
    /\ Deref(lists, merged).name = PyStr(S_Joanna)
    /\ Deref(lists, merged).experiences = <<S_X, S_Y>>

\* C4: _merge_results changes neither of its arguments: after a call, `base`
\* (its experiences list included) and `update` denote what they denoted
\* before the call.
C4_MergeLeavesArgumentsUnchanged ==
    Len(partials) > 0 =>
       /\ Deref(lists, base) = base_before
       /\ Deref(lists, page_result) = update_before

\* a response whose content parses neither as it is nor from its first "{"
\* to its last "}"
Malformed(r) ==
    /\ ~r.raises
    /\ r.content # <<>>
    /\ ~JsonParses(r.content)
    /\ ~JsonParses(BraceSearch(r.content))

\* C6: a response that does not parse, and whose brace-delimited substring
\* (if any) does not parse either, makes the attempt return the all-absent
\* record: when the first call of a page got such a response, the page is
\* extracted with that one call and its record is all-absent.
C6_MalformedResponseIsEmptyRecord ==
    (page_idx > 0 /\ calls = 1 /\ Malformed(resp)) =>
       /\ pc = "loop"
       /\ outcome[page_idx] = "ok"
       /\ Deref(lists, page_result) = EmptyValue

\* whether the attempt that got response r raised
Raised(r) == _extract_from_page(<<>>, r).raised

\* C7: at most 3 attempts per page, each one service call; the waits between
\* them are 1, then 2 (never above 10); the first attempt that succeeds ends
\* the retrying and its record is returned; after a third failed attempt the
\* exception reaches the caller, and there is no fourth attempt.
C7_ThreeAttemptsWithBackoff ==
    /\ calls <= 3
    /\ Len(sleeps) <= 2
    /\ \A k \in 1..Len(sleeps) :
          sleeps[k] = (IF k = 1 THEN 1 ELSE 2) /\ sleeps[k] <= 10
    /\ pc = "call" =>
          /\ attempt_number = calls + 1
          /\ attempt_number <= 3
          /\ Len(sleeps) = calls
          /\ calls > 0 => Raised(resp)
    /\ (pc # "call" /\ page_idx > 0 /\ outcome[page_idx] = "ok") =>
          /\ calls >= 1
          /\ Len(sleeps) = calls - 1
          /\ ~Raised(resp)
          /\ partials[Len(partials)].page = page_idx
          /\ partials[Len(partials)].rec = Deref(lists, page_result)
    /\ (pc # "call" /\ page_idx > 0 /\ outcome[page_idx] = "failed") =>
          /\ calls = 3
          /\ sleeps = <<1, 2>>
          /\ Raised(resp)

\* C7 witness: a page given up after three failed attempts
C7_Witness ==
    /\ pc = "loop"
    /\ page_idx > 0
    /\ outcome[page_idx] = "failed"
    /\ calls = 3
    /\ sleeps = <<1, 2>>

\* the value of field f in the last of the first n records that has one
RECURSIVE LastPresent(_, _, _)
LastPresent(ps, f, n) ==
    IF n = 0 THEN PyNone
    ELSE IF ps[n].rec[f] # PyNone THEN ps[n].rec[f]
    ELSE LastPresent(ps, f, n - 1)

\* C8: the aggregate's email (github) is the validated value of the last
\* extracted page that carries one, and absent when no page carries one.
C8_LastValidEmailAndGithubWin ==
    /\ merged.email = LastPresent(partials, "email", Len(partials))
    /\ merged.github = LastPresent(partials, "github", Len(partials))
    /\ \A f \in {"email", "github"} :
          (Len(partials) > 0 /\ update_before[f] = PyNone)
             => merged[f] = base_before[f]

\* C8 witness: pages yielding a@x.com, then b@y.com, then a candidate that
\* fails the pattern: the aggregate holds b@y.com
C8_Witness ==
    /\ Len(partials) = 3
    /\ partials[1].rec.email = PyStr(S_a_x_com)
    /\ partials[2].rec.email = PyStr(S_b_y_com)
    /\ partials[3].rec.email = PyNone
    /\ partials[3].rec.github = PyStr(S_github_jo)
    /\ resp.payload.email = PyStr(S_not_an_email)
    /\ merged.email = PyStr(S_b_y_com)
    /\ merged.github = PyStr(S_github_jo)

\* the length of an optional string (0 when absent)
LenOf(v) == IF v = PyNone THEN 0 ELSE Len(v.s)

\* the value of field f in the first of the records that is of maximal length
FirstLongest(ps, f) ==
    IF \A n \in 1..Len(ps) : ps[n].rec[f] = PyNone THEN PyNone
    ELSE ps[Min({n \in 1..Len(ps) :
                    \A k \in 1..Len(ps) : LenOf(ps[k].rec[f]) <= LenOf(ps[n].rec[f])})].rec[f]

\* C9: name and education are replaced iff the partial's value is non-empty
\* and the aggregate's is empty or strictly shorter; otherwise (equal length,
\* shorter or absent partial) the aggregate's value is kept.  So the value
\* after a fold is the first of maximal length among the pages' values.
C9_LongerWinsTieKeeps ==
    \A f \in {"name", "education"} :
       /\ Len(partials) > 0 =>
             merged[f] = IF /\ update_before[f] # PyNone
                            /\ LenOf(update_before[f]) > 0
                            /\ (\/ LenOf(base_before[f]) = 0
                                \/ LenOf(base_before[f]) < LenOf(update_before[f]))
                         THEN update_before[f]
                         ELSE base_before[f]
       /\ merged[f] = FirstLongest(partials, f)

\* C9 witness: "Jo", then "Al" of equal length (kept "Jo"), then "Joanna"
C9_Witness ==
    /\ Len(partials) = 3
    /\ partials[1].rec.name = PyStr(S_Jo)
    /\ partials[2].rec.name = PyStr(S_Al)
    /\ partials[3].rec.name = PyStr(S_Joanna)
    /\ base_before.name = PyStr(S_Jo)
    /\ merged.name = PyStr(S_Joanna)
    /\ partials[1].rec.education = PyNone
    /\ partials[2].rec.education = PyStr(S_BSc)
    /\ merged.education = PyStr(S_BSc)

\* the experiences of the extracted pages, one after the other
RECURSIVE AllExperiences(_, _)
AllExperiences(ps, n) ==
    IF n = 0 THEN <<>>
    ELSE AllExperiences(ps, n - 1) \o ps[n].rec.experiences

FirstIndex(xs, x) == Min({k \in 1..Len(xs) : xs[k] = x})

\* xs holds every non-empty string of all exactly once, in the order of the
\* first appearances in all
IsFirstAppearanceOrder(xs, all) ==
    /\ {xs[k] : k \in 1..Len(xs)}
          = {Strip(all[k]) : k \in 1..Len(all)} \ {<<>>}
    /\ \A j, k \in 1..Len(xs) : j # k => xs[j] # xs[k]
    /\ \A j, k \in 1..Len(xs) :
          j < k => FirstIndex(all, xs[j]) < FirstIndex(all, xs[k])

\* C10: the aggregate's experiences are the distinct trimmed non-empty strings
\* of the merged partials, each once, in order of first appearance (page
\* order, then the partial's own order), also when a partial repeats an entry.
C10_ExperiencesFirstSeenOnce ==
    IsFirstAppearanceOrder(lists[merged.experiences],
                           AllExperiences(partials, Len(partials)))

\* C10 witness: overlapping pages, one of which repeats an entry in itself
C10_Witness ==
    /\ Len(partials) = 3
    /\ partials[1].rec.experiences = <<S_X>>
    /\ partials[2].rec.experiences = <<S_Y, S_Y, Str_42>>
    /\ partials[3].rec.experiences = <<S_Z, S_X>>
    /\ lists[merged.experiences] = <<S_X, S_Y, Str_42, S_Z>>

\* C13: merging the all-absent partial into an aggregate reached by folding
\* page records from the empty aggregate returns a record equal to the
\* aggregate in every field, the experiences list included.
C13_MergeWithEmptyPartialIsIdentity ==
    MergeValue(Deref(lists, merged), EmptyValue) = Deref(lists, merged)

\* C13 witness: an aggregate with every field set and two experiences
C13_Witness ==
    /\ pc = "loop"
    /\ Len(partials) >= 2
    /\ \A f \in {"name", "email", "github", "education"} :
          Deref(lists, merged)[f] # PyNone
    /\ Len(lists[merged.experiences]) >= 2
    /\ MergeValue(Deref(lists, merged), EmptyValue).email = merged.email

\* the pages up to the loop's position whose text is not empty
NonBlankSoFar == {k \in 1..page_idx : pages[k] # ""}

IsIncreasing(xs) == \A n \in 1..(Len(xs) - 1) : xs[n] < xs[n + 1]

\* C14 as claimed: at the return _extract_from_page has been called once for
\* every page of the list, pages with empty text included, in page order.
C14_OneCallForEveryPage ==
    pc = "done" => invoked = [k \in 1..Len(pages) |-> k]

\* C14 as amended: _extract_from_page is called once (one call of at most
\* three attempts) for every page whose text is not empty, in increasing
\* page order, and for no page with empty text, which is skipped and leaves
\* the aggregate as it is; when the call for a page starts, every earlier
\* page is settled and the results of the earlier extracted pages are
\* merged into the aggregate.
C14_OneCallForEveryNonBlankPage ==
    /\ IsIncreasing(invoked)
    /\ {invoked[n] : n \in 1..Len(invoked)} = NonBlankSoFar
    /\ \A k \in 1..page_idx : pages[k] = "" <=> outcome[k] = "blank"
    /\ calls <= StopAfterAttempt
    /\ pc = "call" =>
          /\ invoked[Len(invoked)] = page_idx
          /\ outcome[page_idx] = "pending"
          /\ \A k \in 1..(page_idx - 1) : outcome[k] # "pending"
          /\ {partials[n].page : n \in 1..Len(partials)}
                = {k \in 1..(page_idx - 1) : outcome[k] = "ok"}
          /\ Deref(lists, merged) = FoldPartials(partials, Len(partials))
    /\ pc = "done" =>
          /\ page_idx = Len(pages)
          /\ \A k \in 1..Len(pages) : outcome[k] # "pending"

\* C14 witness: a blank page between two pages with text; the call has
\* returned after two calls of _extract_from_page
C14_Witness ==
    /\ pc = "done"
    /\ pages = <<"text", "", "text">>
    /\ invoked = <<1, 3>>
    /\ outcome = <<"ok", "blank", "ok">>

IsPrefix(xs, ys) ==
    /\ Len(xs) <= Len(ys)
    /\ \A k \in 1..Len(xs) : xs[k] = ys[k]

IsValidEmail(v) == v # PyNone /\ _normalize_email(v) = v

IsValidGithub(v) == v # PyNone /\ _normalize_github(v) = v

\* what a step of the fold may do to the aggregate: from a to b
ImprovedOnly(a, b) ==
    /\ \A f \in {"name", "email", "github", "education"} :
          a[f] # PyNone => b[f] # PyNone
    /\ LenOf(a.name) <= LenOf(b.name)
    /\ LenOf(a.education) <= LenOf(b.education)
    /\ IsPrefix(a.experiences, b.experiences)
    /\ b.email # PyNone => IsValidEmail(b.email)
    /\ b.github # PyNone => IsValidGithub(b.github)

\* C16: along the fold, no step clears a field that is set or shortens name
\* or education; the experiences list before a step is a prefix of the list
\* after it; email and github, when set, match their patterns, and so change
\* only to another valid value.
C16_AggregateOnlyImproves ==
    [][ImprovedOnly(Deref(lists, merged), Deref(lists', merged'))]_vars

\* C16 witness: a merge of a partial without a name has replaced a set
\* email by another valid one, kept the name and extended a non-empty
\* experiences list
C16_Witness ==
    /\ pc = "loop"
    /\ Len(partials) >= 2
    /\ base_before.email # PyNone
    /\ Deref(lists, merged).email # base_before.email
    /\ update_before.name = PyNone
    /\ base_before.name # PyNone
    /\ merged.name = base_before.name
    /\ base_before.experiences # <<>>
    /\ Len(base_before.experiences) < Len(lists[merged.experiences])

\* ------------------------------------------------------------------------
\* Properties of the Isolation Runner and of main (specification SpecMain)
\* ------------------------------------------------------------------------

\* C2: when the worker's text extraction returned before the deadline, the
\* call returns the document's full page list.  "Before the deadline" is
\* read in the code's favour: either the deadline never elapsed, or it
\* elapsed when the worker had gone as far as it can on its own (it had
\* exited, or its feeder thread was stopped at the full pipe).
C2_FinishedExtractionIsReturned ==
    ( /\ main_pc = "pages"
      /\ cur.extraction = "returned"
      /\ (~cur.deadline \/ cur.worker_at_deadline \in {"blocked", "exited"}) )
    => main_pages = PyList(doc.pages)

LogOfJob(j) == SelectSeq(log, LAMBDA e : e.job = j)

RowsFor(url) == {k \in 1..Len(rows) : rows[k].source_url = url}

\* what main does with a document for which the runner gave None: no
\* Field Extractor call, no row, on to the next candidate URL
SkippedWithoutRow ==
    cur.finished =>
       /\ cur.extract_calls = 0
       /\ log[Len(log)].url = cur.url
       /\ log[Len(log)].result = "no pages"
       /\ RowsFor(cur.url) = {}
       /\ main_pc = "next_url"
       /\ r_idx = log[Len(log)].r_idx + 1

\* C3 as claimed: when the worker is still running as the deadline elapses,
\* the call returns None with no worker left alive ("terminated" is read as
\* "no longer running", so a worker that died by itself counts), and main
\* skips the document.
C3_RunningAtDeadlineGivesNoResult ==
    ( /\ cur.returned
      /\ cur.deadline
      /\ cur.worker_at_deadline \in {"extracting", "exiting", "blocked"} )
    => /\ main_pages = PyNone
       /\ main_pc = "pages" => ~WorkerAlive
       /\ SkippedWithoutRow

\* C3 as amended: a worker that is still alive when the parent tests
\* p.is_alive() after the timed join is terminated and the call returns None;
\* the call returns None or the document's full page list, never a part of
\* it; no worker is alive when the call returns; main then makes no Field
\* Extractor call and no row for the document and goes on with the next
\* candidate URL, so that every candidate URL of the job is handled.
C3_AliveAtCheckGivesNoResult ==
    /\ (cur.returned /\ cur.alive_at_check) =>
          /\ main_pages = PyNone
          /\ main_pc = "pages" => w_pc = "terminated"
          /\ SkippedWithoutRow
    /\ main_pc = "pages" =>
          /\ ~WorkerAlive
          /\ main_pages # PyNone =>
                main_pages = PyList(doc.pages) /\ q_unsent = 0
    /\ main_pc = "next_url" => Len(LogOfJob(idx)) = r_idx
    /\ (main_pc = "next_job" /\ idx > 0) => Len(LogOfJob(idx)) = Len(pdf_urls)

\* C3 witness: the deadline elapsed, the worker was alive at the test and was
\* terminated, the document was skipped and the job's next URL is up
C3_Witness ==
    /\ cur.finished
    /\ cur.deadline
    /\ cur.alive_at_check
    /\ main_pages = PyNone
    /\ main_pc = "next_url"
    /\ r_idx < Len(pdf_urls)

\* the units of the current job for which a credential was selected (the
\* candidate URLs not skipped for a failed download or extraction)
SelectedUnits == SelectSeq(LogOfJob(idx), LAMBDA e : e.result \in {"row", "no key"})

\* C5: with a non-empty pool, the i-th (zero-based) processed unit of a job
\* gets pool[i mod len(pool)], whatever was skipped before it.
C5_ProcessedUnitsRotate ==
    Truthy(api_keys) =>
       \A i \in 1..Len(SelectedUnits) :
          SelectedUnits[i].key
             = api_keys.items[((i - 1) % Len(api_keys.items)) + 1]

\* the entries of the log of job j that stand for a row, and their URLs
RowEntries(j) == SelectSeq(LogOfJob(j), LAMBDA e : e.result = "row")

UrlsOf(es) == [k \in 1..Len(es) |-> es[k].url]

SourceUrls(rs) == [k \in 1..Len(rs) |-> rs[k].source_url]

\* the extracted fields of a row
RecordOf(row) ==
    [name |-> row.name, email |-> row.email, github |-> row.github,
     education |-> row.education, experiences |-> row.experiences]

\* page k of pp fails: every attempt the retry policy allows raises
PageFails(pp, plans, k) ==
    pp[k] # "" /\ ExtractWithRetry(<<>>, plans[k], 1).raised

\* pp with the text of the failing pages taken out
WithoutFailedPages(pp, plans) ==
    [k \in 1..Len(pp) |-> IF PageFails(pp, plans, k) THEN "" ELSE pp[k]]

\* main has just appended the row of the current candidate URL
RowJustAppended ==
    /\ main_pc = "next_url"
    /\ cur.finished
    /\ cur.extract_calls = 1

\* C11: no per-item failure aborts the batch.  A candidate URL whose
\* download failed or whose extraction gave no pages has no row, and a page
\* that failed after all retries adds to its row what an absent page adds;
\* the job goes on through every candidate URL and the run through every
\* job; main returns 0 once the jobs have started, and only a failure of the
\* discovery of a job, before any of its candidates, raises out of main.
C11_PerItemFailuresAreContained ==
    /\ main_pc # "raised" =>
          \A n \in 1..Len(LogOfJob(idx)) :
             LogOfJob(idx)[n].result # "row" => RowsFor(LogOfJob(idx)[n].url) = {}
    /\ RowJustAppended =>
          RecordOf(rows[Len(rows)])
             = extract_resume_from_pages(
                  WithoutFailedPages(main_pages.items, cur.plans), cur.plans)
    /\ main_pc = "next_url" => Len(LogOfJob(idx)) = r_idx
    /\ (main_pc = "next_job" /\ idx > 0) => UrlsOf(LogOfJob(idx)) = pdf_urls
    /\ (main_pc = "raised" /\ idx > 0) => LogOfJob(idx) = <<>>
    /\ (main_pc = "returned" /\ idx > 0) => exit_code = 0 /\ idx = njobs
    /\ (main_pc = "returned" /\ exit_code = 0) =>
          \A j \in 1..njobs : j <= idx

\* C11 witness: main has returned 0 after two jobs in which a download
\* failed, an extraction gave no pages and a document gave a row
C11_Witness ==
    /\ main_pc = "returned"
    /\ exit_code = 0
    /\ njobs = 2
    /\ \E n \in 1..Len(log) : log[n].result = "download failed" /\ log[n].job = 1
    /\ \E n \in 1..Len(log) : log[n].result = "no pages" /\ log[n].job = 1
    /\ \E n \in 1..Len(log) : log[n].result = "row" /\ log[n].job = 2

\* the pool the config file gives (None without one)
ConfiguredPool ==
    IF config.kind = "json" /\ config.object
    THEN DictGet(config.data, "api_keys") ELSE PyNone

\* the exit code the startup rules give, tested in the order 3, 2, 4
ExpectedExit ==
    IF \/ config.kind \in {"unreadable", "invalid"}
       \/ (config.kind = "json" /\ ~config.object)
    THEN 3
    ELSE IF ~Truthy(env_api_key) /\ ~Truthy(ConfiguredPool) THEN 2
    ELSE IF config.kind = "absent" /\ ~target THEN 4
    ELSE 0

\* C12: main ends with 3 for a config file that is unreadable, not JSON or
\* JSON that is no object, with 2 without any credential, with 4 without
\* config file and target, having processed no job and written nothing;
\* in every other case it ends with 0 (a job whose discovery raised is left
\* aside).
C12_StartupExitCodes ==
    /\ (main_pc \in {"returned", "raised"} /\ idx = 0) => exit_code = ExpectedExit
    /\ ExpectedExit # 0 => idx = 0 /\ out_file = <<>> /\ log = <<>>
    /\ (main_pc = "returned" /\ idx > 0) => exit_code = 0

\* the jobs whose rows have been handed to the output file
JobsAppended ==
    IF main_pc \in {"next_job", "returned"} THEN 1..idx ELSE 1..(idx - 1)

RowEntriesOfJobs(js) ==
    SelectSeq(log, LAMBDA e : e.result = "row" /\ e.job \in js)

\* the output file holds the rows of the jobs that are over, in order
FileHoldsFinishedJobs == SourceUrls(out_file) = UrlsOf(RowEntriesOfJobs(JobsAppended))

\* C15: the output file is only ever appended to, and whenever a job has
\* started, raised or ended, the file holds every row of the jobs before
\* it (and of the job itself once it is over): a run that ends in a later
\* job leaves the rows of the earlier jobs in the file.
C15_RowsOfAJobAreFiledBeforeTheNext ==
    [][IsPrefix(out_file, out_file') /\ FileHoldsFinishedJobs']_vars

\* C15 witness: the discovery of the second job raised and the rows of the
\* first job are in the file
C15_Witness ==
    /\ main_pc = "raised"
    /\ idx = 2
    /\ Len(out_file) >= 1
    /\ \A n \in 1..Len(log) : log[n].job = 1

\* no page of pp gives a record: each is blank or fails all its attempts
NoPageExtracted(pp, plans) ==
    \A k \in 1..Len(pp) : pp[k] = "" \/ PageFails(pp, plans, k)

\* C17: the rows of a job are one row for each candidate URL that was
\* downloaded, gave a page list and was given a non-empty credential, in
\* that order and with distinct URLs, each with source_url, pdf_path and id;
\* a document without pages, with blank pages only or whose pages all failed
\* gives a row too, with the all-empty record.
C17_OneRowPerProcessedDocument ==
    /\ main_pc # "raised" =>
          /\ SourceUrls(rows) = UrlsOf(RowEntries(idx))
          /\ \A j, k \in 1..Len(rows) :
                j # k => rows[j].source_url # rows[k].source_url
          /\ \A k \in 1..Len(rows) :
                /\ rows[k].pdf_path = DestPath(rows[k].source_url)
                /\ rows[k].id = hash_for_url(rows[k].source_url)
    /\ RowJustAppended =>
          /\ rows[Len(rows)].source_url = cur.url
          /\ log[Len(log)].result = "row"
          /\ Truthy(log[Len(log)].key)
          /\ NoPageExtracted(main_pages.items, cur.plans) =>
                RecordOf(rows[Len(rows)]) = EmptyValue

\* C17 witness: a job has a row for a document without pages and has just
\* made a row for a document with a blank page and a page that failed after
\* all retries
C17_Witness ==
    /\ RowJustAppended
    /\ Len(rows) = 2
    /\ main_pages = PyList(<<"", "text">>)
    /\ PageFails(main_pages.items, cur.plans, 2)
    /\ \E n \in 1..Len(log) : log[n].result = "row" /\ log[n].key = PyStr(S_k1)
    /\ RecordOf(rows[1]) = EmptyValue
    /\ RecordOf(rows[2]) = EmptyValue

\* C18: once the credential check of the startup has passed, every document
\* that was downloaded and gave a page list is given a non-empty credential
\* and reaches field extraction, and the environment credential is the one
\* used exactly when the configured pool is absent or empty.
C18_NoDocumentDroppedForLackOfCredential ==
    /\ \A n \in 1..Len(log) : log[n].result # "no key"
    /\ (main_pc = "pages" /\ main_pages # PyNone) =>
          Truthy(_pick_api_key(env_api_key, api_keys, r_idx))
    /\ \A n \in 1..Len(log) :
          log[n].result = "row" =>
             (log[n].key = env_api_key <=> ~Truthy(api_keys))
====
